---- MODULE Spec2Model ----
(***************************************************************************)
(* money-map: the recurring-contribution reconciler.                       *)
(*                                                                         *)
(* api.checkMonthlyEntries (src/src/lib/api.ts) adds the month's EPF       *)
(* contribution on/after the 5th and one SIP investment per active plan    *)
(* on/after the 25th.  DashboardLayout starts it once per mount.           *)
(* InvestmentSection exists in two versions: one adds automatic SIP        *)
(* entries itself (addAutomaticSipEntries), the other offers "skip this    *)
(* month" (skipCurrentMonthInvestment).  The data store (supabase) is the  *)
(* three tables epf, sips and invs; every awaited call to it is one step   *)
(* that succeeds, returns an error, or throws.                             *)
(***************************************************************************)
EXTENDS Integers, Sequences, FiniteSets

VARIABLES
    now,     \* the wall clock: a local instant of the current day
    tz,      \* the client's UTC offset: 1 east of UTC, 0 UTC, -1 west
    epf,     \* table epf_contributions (rows of the signed-in user)
    sips,    \* table sip_investments
    invs,    \* table investments
    lay,     \* per tab: DashboardLayout (hasCheckedEntries, its async call)
    chk,     \* per tab: the running api.checkMonthlyEntries invocation
    sec,     \* per tab: InvestmentSection (in-memory copies, refs, tasks)
    esec,    \* per tab: EPFSection (in-memory copies, its tasks)
    hist     \* history: what happened since the last clean reconciler run

vars == <<now, tz, epf, sips, invs, lay, chk, sec, esec, hist>>

(***************************************************************************)
(* Bounds of the model.                                                    *)
(***************************************************************************)
MaxPlans == 2      \* SIP plans in the initial sip_investments table
MaxFaults == 1     \* calls to the data store that fail, per behaviour
MaxMounts == 2     \* page loads (DashboardLayout mounts) per tab
MaxSkips == 1      \* "skip this month" clicks per tab
MaxDeliveries == 2 \* sessions delivered to one page (getSession, auth state changes)
MaxEdits == 1      \* dialogs of a section the user confirms, per page

Tabs == {1, 2}       \* browser tabs (sessions) of the one user
SeqTabs == {1}       \* the tab that acts when sessions do not overlap
UserId == "u1"

(***************************************************************************)
(* Dates.  A calendar date (a `date` column, an ISO yyyy-mm-dd string) is  *)
(* [y, m, d].  A JavaScript Date is a local instant [y, m, d, t]: t = 0 is *)
(* local midnight of that day, t = 1 some later time of the same day.      *)
(***************************************************************************)
NoDate == [y |-> 0, m |-> 0, d |-> 0]          \* null
NoId == "null"

CalDate(y, m, d) == [y |-> y, m |-> m, d |-> d]

Ord(x) == ((x.y * 12 + x.m) * 31 + x.d) * 2 + x.t

parseISO(s) == [y |-> s.y, m |-> s.m, d |-> s.d, t |-> 0]

NewDate(y, m, d) == [y |-> y, m |-> m, d |-> d, t |-> 0]

startOfMonth(x) == [y |-> x.y, m |-> x.m, d |-> 1, t |-> 0]

getDate(x) == x.d

getMonth(x) == x.m

getFullYear(x) == x.y

isBefore(a, b) == Ord(a) < Ord(b)

isAfter(a, b) == Ord(a) > Ord(b)

isSameMonth(a, b) == a.y = b.y /\ a.m = b.m

\* The calendar day before / after a calendar date (30-day months, which
\* is all the days the model visits need).
PrevDay(c) ==
    IF c.d > 1 THEN [c EXCEPT !.d = @ - 1]
    ELSE IF c.m > 1 THEN [y |-> c.y, m |-> c.m - 1, d |-> 30]
    ELSE [y |-> c.y - 1, m |-> 12, d |-> 30]

NextDay(c) ==
    IF c.d < 30 THEN [c EXCEPT !.d = @ + 1]
    ELSE IF c.m < 12 THEN [y |-> c.y, m |-> c.m + 1, d |-> 1]
    ELSE [y |-> c.y + 1, m |-> 1, d |-> 1]

\* x.toISOString().split('T')[0]: the UTC calendar date of a local instant.
\* Local midnight east of UTC is still the previous day in UTC.  A later
\* time of the day may fall on the UTC neighbour day; `late` says it does.
toISODate(x, late) ==
    LET c == CalDate(x.y, x.m, x.d) IN
    IF x.t = 0
    THEN IF tz > 0 THEN PrevDay(c) ELSE c
    ELSE IF late /\ tz > 0 THEN PrevDay(c)
         ELSE IF late /\ tz < 0 THEN NextDay(c)
         ELSE c

(***************************************************************************)
(* Program constants.                                                      *)
(***************************************************************************)
EpfDay == 5
SipDay == 25
EpfAmount == 3600
EpfDefaultAmount == 3600

EpfAutoNote == "Automatically added monthly EPF contribution"
SipAutoNote == "Automatically added monthly SIP investment"
SkipNote == "Skipped month investment"

(***************************************************************************)
(* The data store.  A select answers {data, error}: data is the rows, or   *)
(* null when the call failed.  insert gives the row the next id.           *)
(***************************************************************************)
NullData == [ok |-> FALSE, rows |-> <<>>]

Selected(table) == [ok |-> TRUE, rows |-> table]

Outcomes == {"ok", "error", "throw"}

PlanId(k) == <<"p1", "p2", "p3", "p4", "p5", "p6">>[k]

\* mutant: a unique key on (user, month) rejects the second row of a month
InsertEpf_UniquePerMonth(table, r) ==
    IF \E k \in DOMAIN table : table[k].date.y = r.date.y /\ table[k].date.m = r.date.m
    THEN table
    ELSE Append(table, [id |-> Len(table) + 1, user_id |-> r.user_id,
                        amount |-> r.amount, date |-> r.date, notes |-> r.notes])

InsertEpf(table, r) ==
    Append(table, [id |-> Len(table) + 1, user_id |-> r.user_id,
                   amount |-> r.amount, date |-> r.date, notes |-> r.notes])

\* mutant: an upsert on (plan, month) overwrites the row the plan has in
\* the month
InsertInv_Upsert(table, r) ==
    LET new == [id |-> Len(table) + 1, user_id |-> r.user_id,
                sip_investment_id |-> r.sip_investment_id, type |-> r.type,
                name |-> r.name, amount |-> r.amount, date |-> r.date, notes |-> r.notes]
        S == {k \in DOMAIN table : /\ table[k].sip_investment_id = r.sip_investment_id
                                   /\ table[k].date.y = r.date.y
                                   /\ table[k].date.m = r.date.m}
    IN  IF S = {} THEN Append(table, new)
        ELSE [k \in DOMAIN table |-> IF k \in S THEN [new EXCEPT !.id = k] ELSE table[k]]

InsertInv(table, r) ==
    Append(table, [id |-> Len(table) + 1, user_id |-> r.user_id,
                   sip_investment_id |-> r.sip_investment_id, type |-> r.type,
                   name |-> r.name, amount |-> r.amount, date |-> r.date,
                   notes |-> r.notes])

(***************************************************************************)
(* api.checkMonthlyEntries: the decisions it takes between two awaits.     *)
(***************************************************************************)
\* mutant: only a contribution dated the 5th counts
hasCurrentMonthEPF_OnThe5th(epfData, today) ==
    /\ epfData.ok
    /\ \E k \in DOMAIN epfData.rows :
          parseISO(epfData.rows[k].date) = NewDate(getFullYear(today), getMonth(today), EpfDay)

\* epfData?.some(c => month and year of parseISO(c.date) are today's)
hasCurrentMonthEPF(epfData, today) ==
    /\ epfData.ok
    /\ \E k \in DOMAIN epfData.rows :
          /\ getMonth(parseISO(epfData.rows[k].date)) = getMonth(today)
          /\ getFullYear(parseISO(epfData.rows[k].date)) = getFullYear(today)

\* mutant: the day-of-month test left out
ShouldAddEPF_NoDayTest(epfData, today) ==
    ~hasCurrentMonthEPF(epfData, today)

\* if (!hasCurrentMonthEPF && getDate(today) >= 5)
ShouldAddEPF(epfData, today) ==
    ~hasCurrentMonthEPF(epfData, today) /\ getDate(today) >= EpfDay

\* mutant: the contribution dated the 1st of the month
newContribution_OnThe1st(userId, today) ==
    [user_id |-> userId,
     amount |-> EpfAmount,
     date |-> toISODate(NewDate(getFullYear(today), getMonth(today), 1), FALSE),
     notes |-> EpfAutoNote]

newContribution(userId, today) ==
    [user_id |-> userId,
     amount |-> EpfAmount,
     date |-> toISODate(NewDate(getFullYear(today), getMonth(today), EpfDay), FALSE),
     notes |-> EpfAutoNote]

\* mutant: only the end date is tested
sipNotActive_EndOnly(sip, currentMonthStart) ==
    /\ sip.end_date # NoDate
    /\ isAfter(currentMonthStart, parseISO(sip.end_date))

\* the `continue` of the SIP loop: the plan is not active for the month
sipNotActive(sip, currentMonthStart) ==
    \/ isBefore(currentMonthStart, parseISO(sip.start_date))
    \/ /\ sip.end_date # NoDate
       /\ isAfter(currentMonthStart, parseISO(sip.end_date))

\* investmentData?.some(inv => inv.sip_investment_id === sip.id && isSameMonth(..))
hasEntryThisMonth(investmentData, sip, currentMonthStart) ==
    /\ investmentData.ok
    /\ \E k \in DOMAIN investmentData.rows :
          /\ investmentData.rows[k].sip_investment_id = sip.id
          /\ isSameMonth(parseISO(investmentData.rows[k].date), currentMonthStart)

\* mutant: the day-of-month test left out
ShouldAddSip_NoDayTest(investmentData, sip, today) ==
    ~hasEntryThisMonth(investmentData, sip, startOfMonth(today))

\* if (!hasEntryThisMonth && getDate(today) >= 25)
ShouldAddSip(investmentData, sip, today) ==
    /\ ~hasEntryThisMonth(investmentData, sip, startOfMonth(today))
    /\ getDate(today) >= SipDay

\* mutant: the row carries a fixed amount and no plan id
newInvestment_Unlinked(userId, sip, today) ==
    [user_id |-> userId,
     sip_investment_id |-> NoId,
     type |-> "SIP",
     name |-> sip.fund_name,
     amount |-> 100,
     date |-> toISODate(NewDate(getFullYear(today), getMonth(today), SipDay), FALSE),
     notes |-> SipAutoNote]

newInvestment(userId, sip, today) ==
    [user_id |-> userId,
     sip_investment_id |-> sip.id,
     type |-> "SIP",
     name |-> sip.fund_name,
     amount |-> sip.amount,
     date |-> toISODate(NewDate(getFullYear(today), getMonth(today), SipDay), FALSE),
     notes |-> SipAutoNote]

\* The SIP loop runs synchronously from plan `from` to the next plan it has
\* to insert for: the index of that plan, or 0 when the loop ends.
NextSipInsert(sipData, investmentData, today, from) ==
    LET S == {k \in from..Len(sipData.rows) :
                 /\ ~sipNotActive(sipData.rows[k], startOfMonth(today))
                 /\ ShouldAddSip(investmentData, sipData.rows[k], today)}
    IN  IF S = {} THEN 0 ELSE CHOOSE k \in S : \A j \in S : k <= j

(***************************************************************************)
(* State of one api.checkMonthlyEntries invocation.  The fields down to    *)
(* result are the function's locals; the rest is history kept for the      *)
(* properties: the tables as they stood when the invocation read them,     *)
(* the rows it inserted, whether a call failed (failedFor: "epf" or the     *)
(* plan id when it was an insert) or another writer wrote                  *)
(* while it ran, and what preceded it (prevDay: the day-of-month on which   *)
(* the previous invocation ran, when that one returned without a failure   *)
(* and nothing was written since it started, else 0; prevIns: the rows     *)
(* that one inserted; afterSkip: a skip wrote its rows earlier this        *)
(* month).                                                                 *)
(***************************************************************************)
NoInstant == [y |-> 0, m |-> 0, d |-> 0, t |-> 0]

NoResult == [epfAdded |-> FALSE, investmentsAdded |-> FALSE]

IdleChk ==
    [pc |-> "idle", userId |-> "", today |-> NoInstant,
     epfData |-> NullData, sipData |-> NullData, investmentData |-> NullData,
     i |-> 0, epfAdded |-> FALSE, investmentsAdded |-> FALSE,
     result |-> NoResult,
     seenEpf |-> <<>>, seenSips |-> <<>>, seenInvs |-> <<>>,
     epfIns |-> <<>>, invIns |-> <<>>,
     readFailed |-> {}, failedFor |-> {}, failed |-> FALSE, caught |-> FALSE,
     dirty |-> FALSE, prevDay |-> 0, prevIns |-> 0, afterSkip |-> FALSE]

Running(c) == c.pc \in {"readEPF", "insertEPF", "readSips", "readInvs", "insertInv"}

Finished(c) == c.pc \in {"returned", "rejected"}

\* return { epfAdded, investmentsAdded }
ApiReturn(c) ==
    [c EXCEPT !.pc = "returned",
              !.result = [epfAdded |-> c.epfAdded,
                          investmentsAdded |-> c.investmentsAdded]]

\* mutant: no try/catch around the body, the error leaves the function
ApiCatch_Rethrow(c) ==
    [c EXCEPT !.pc = "rejected", !.caught = TRUE, !.failed = TRUE]

\* catch (error) { ...; return { epfAdded: false, investmentsAdded: false } }
ApiCatch(c) ==
    [c EXCEPT !.pc = "returned", !.result = NoResult,
              !.caught = TRUE, !.failed = TRUE]

\* A row written by tab t while another tab's invocation runs is an
\* "other write" for that invocation.
MarkDirty(f, t) ==
    [u \in Tabs |-> IF u # t /\ Running(f[u]) THEN [f[u] EXCEPT !.dirty = TRUE]
                    ELSE f[u]]

\* A call to the data store may fail while the fault budget lasts.
MayFail(o) == o = "ok" \/ hist.faults < MaxFaults

HistAfter(c2, o) ==
    [hist EXCEPT !.prevDay = IF ~Finished(c2) THEN @
                           ELSE IF c2.pc = "returned" /\ ~c2.failed /\ ~c2.dirty
                           THEN c2.today.d ELSE 0,
                 !.prevIns = IF Finished(c2) THEN Len(c2.epfIns) + Len(c2.invIns) ELSE @,
                 !.faults = IF o = "ok" THEN @ ELSE @ + 1]

\* One step of tab t's invocation, leaving it in c2.
ApiStep(t, c2, o) ==
    /\ MayFail(o)
    /\ chk' = [chk EXCEPT ![t] = c2]
    /\ hist' = HistAfter(c2, o)

\* The same for a step that wrote a row.
ApiWrite(t, c2, o) ==
    /\ chk' = [MarkDirty(chk, t) EXCEPT ![t] = c2]
    /\ hist' = HistAfter(c2, o)

\* mutant: a failure met so far ends the invocation
SipLoop_StopOnFailure(c, from) ==
    LET k == NextSipInsert(c.sipData, c.investmentData, c.today, from) IN
    IF k = 0 \/ c.failed THEN ApiReturn(c) ELSE [c EXCEPT !.pc = "insertInv", !.i = k]

\* After the investments read, and after each insert, the loop runs on to
\* the next insert or to the return.
SipLoop(c, from) ==
    LET k == NextSipInsert(c.sipData, c.investmentData, c.today, from) IN
    IF k = 0 THEN ApiReturn(c) ELSE [c EXCEPT !.pc = "insertInv", !.i = k]

(***************************************************************************)
(* DashboardLayout.                                                        *)
(***************************************************************************)
\* deliveries counts the sessions delivered to this page, calls the
\* invocations of api.checkMonthlyEntries it made.
NoUser == "null"

NoSession == "null"

\* user is the auth store's user (its id), path the route; session is the
\* session last delivered to the page, failedFor the obligations whose
\* insert failed in the invocation that ended on this page.
NoLayout ==
    [mounted |-> FALSE, hasCheckedEntries |-> FALSE, pc |-> "none", mounts |-> 0,
     deliveries |-> 0, calls |-> 0, user |-> NoUser, path |-> "/", session |-> NoSession,
     failedFor |-> {}]

NoSkip == [outcome |-> "none", today |-> NoInstant, active |-> {}, before |-> <<>>, rows |-> <<>>]

\* the updateSipAmount call of a section: its arguments and locals, the
\* table as it stood before, and how the call ended
NoSupersede ==
    [outcome |-> "none", sipId |-> NoId, newAmount |-> 0, today |-> NoInstant,
     late |-> FALSE, before |-> <<>>]

NoSection ==
    [pc |-> "none", ver |-> "none", edits |-> 0, usa |-> NoSupersede,
     sipInvestments |-> <<>>, investments |-> <<>>,
     isInitialMount |-> TRUE, hasCheckedAutoEntries |-> FALSE,
     today |-> NoInstant, late |-> FALSE, i |-> 0, entriesAdded |-> FALSE,
     autoIns |-> <<>>, skips |-> 0, skip |-> NoSkip]

\* EPFSection of a page: useState([]) and useState(3600); edits counts the
\* dialogs the user confirmed.
NoEpfSection ==
    [pc |-> "none", contributions |-> <<>>, monthlyAmount |-> EpfDefaultAmount, edits |-> 0]

\* configured: the monthly EPF amount the user last confirmed in the
\* "update monthly contribution" dialog, 0 when never.
NoHist ==
    [prevDay |-> 0, prevIns |-> 0, skipped |-> FALSE, faults |-> 0, configured |-> 0]

\* A page load: a fresh DashboardLayout (useRef(false)) and fresh sections.
Mount(t) ==
    /\ lay[t].mounts < MaxMounts
    /\ chk[t].pc = "idle"
    /\ sec[t].pc \in {"none", "ready"}
    /\ esec[t].pc \in {"none", "ready"}
    /\ lay' = [lay EXCEPT ![t] = [NoLayout EXCEPT !.mounted = TRUE,
                                                  !.mounts = lay[t].mounts + 1]]
    /\ chk' = [chk EXCEPT ![t] = IdleChk]
    /\ sec' = [sec EXCEPT ![t] = NoSection]
    /\ esec' = [esec EXCEPT ![t] = NoEpfSection]
    /\ UNCHANGED <<now, tz, epf, sips, invs, hist>>

\* mutant: no flag, only the user id is tested
AlreadyChecked_NoFlag(l, userId) == userId = ""

\* if (!userId || hasCheckedEntries.current) return
AlreadyChecked(l, userId) == userId = "" \/ l.hasCheckedEntries

\* mutant: the function has no guard on the user id
ApiCheckMonthlyEntries_NoGuard(userId) ==
    [IdleChk EXCEPT !.pc = "readEPF", !.userId = userId, !.today = now,
                    !.prevDay = hist.prevDay, !.prevIns = hist.prevIns,
                    !.afterSkip = hist.skipped]

\* api.checkMonthlyEntries(userId) up to its first await:
\* if (!userId) return { epfAdded: false, investmentsAdded: false }
ApiCheckMonthlyEntries(userId) ==
    IF userId = ""
    THEN [IdleChk EXCEPT !.pc = "returned", !.result = NoResult]
    ELSE [IdleChk EXCEPT !.pc = "readEPF", !.userId = userId, !.today = now,
                         !.prevDay = hist.prevDay, !.prevIns = hist.prevIns,
                         !.afterSkip = hist.skipped]

\* The callback of getSession or of an auth state change with a session:
\* setUser(session.user), then checkMonthlyEntries(session.user.id): the
\* guard, the flag, then the api call up to its first await.
LayoutCheckMonthlyEntries(t, userId) ==
    /\ lay[t].mounted
    /\ lay[t].deliveries < MaxDeliveries
    /\ IF AlreadyChecked(lay[t], userId)
       THEN /\ lay' = [lay EXCEPT ![t].deliveries = @ + 1,
                                  ![t].user = userId, ![t].session = userId]
            /\ UNCHANGED <<chk, hist>>
       ELSE /\ lay' = [lay EXCEPT ![t].hasCheckedEntries = TRUE, ![t].pc = "awaiting",
                                  ![t].deliveries = @ + 1, ![t].calls = @ + 1,
                                  ![t].user = userId, ![t].session = userId]
            /\ chk' = [chk EXCEPT ![t] = ApiCheckMonthlyEntries(userId)]
            /\ hist' = [hist EXCEPT !.prevDay = 0]
    /\ UNCHANGED <<now, tz, esec, epf, sips, invs, sec>>

\* The callback of getSession or of an auth state change without a session:
\* setUser(null), navigate("/login"); the route leaves the layout.
LayoutNoSession(t) ==
    /\ lay[t].mounted
    /\ lay[t].deliveries < MaxDeliveries
    /\ lay' = [lay EXCEPT ![t].deliveries = @ + 1, ![t].user = NoUser,
                          ![t].session = NoSession, ![t].path = "/login",
                          ![t].mounted = FALSE]
    /\ UNCHANGED <<now, tz, esec, epf, sips, invs, chk, sec, hist>>

\* The await of DashboardLayout.checkMonthlyEntries resumes: the try block
\* logs the result and ends, or the catch block logs a rejection.  The
\* invocation's frame is gone.
LayoutAfter(c) == IF c.pc = "rejected" THEN "caught" ELSE "done"

LayoutResume(t) ==
    /\ lay[t].pc = "awaiting"
    /\ Finished(chk[t])
    /\ lay' = [lay EXCEPT ![t].pc = LayoutAfter(chk[t]),
                          ![t].failedFor = @ \cup chk[t].failedFor]
    /\ chk' = [chk EXCEPT ![t] = IdleChk]
    /\ UNCHANGED <<now, tz, esec, epf, sips, invs, sec, hist>>

(***************************************************************************)
(* api.checkMonthlyEntries, one action per awaited call.                   *)
(***************************************************************************)
ApiReadEPF(t, o) ==
    LET c == chk[t]
        data == IF o = "ok" THEN Selected(epf) ELSE NullData
        c1 == [c EXCEPT !.epfData = data, !.seenEpf = epf,
                        !.failed = @ \/ o # "ok",
                        !.readFailed = IF o = "ok" THEN @ ELSE @ \cup {"epf"}]
    IN  /\ c.pc = "readEPF"
        /\ ApiStep(t, IF o = "throw" THEN ApiCatch(c1)
                      ELSE [c1 EXCEPT !.pc = IF ShouldAddEPF(data, c.today)
                                             THEN "insertEPF" ELSE "readSips"], o)
        /\ UNCHANGED <<now, tz, esec, epf, sips, invs, lay, sec>>

ApiInsertEPF(t, o) ==
    LET c == chk[t]
        row == newContribution(c.userId, c.today)
    IN  /\ c.pc = "insertEPF"
        /\ IF o = "ok"
           THEN /\ epf' = InsertEpf(epf, row)
                /\ ApiWrite(t, [c EXCEPT !.epfAdded = TRUE, !.pc = "readSips",
                                         !.epfIns = Append(@, epf'[Len(epf')])], o)
           ELSE /\ epf' = epf
                /\ ApiStep(t, IF o = "throw"
                              THEN ApiCatch([c EXCEPT !.failedFor = @ \cup {"epf"}])
                              ELSE [c EXCEPT !.failed = TRUE, !.pc = "readSips",
                                             !.failedFor = @ \cup {"epf"}], o)
        /\ UNCHANGED <<now, tz, esec, sips, invs, lay, sec>>

ApiReadSips(t, o) ==
    LET c == chk[t]
        data == IF o = "ok" THEN Selected(sips) ELSE NullData
        c1 == [c EXCEPT !.sipData = data, !.seenSips = sips,
                        !.failed = @ \/ o # "ok",
                        !.readFailed = IF o = "ok" THEN @ ELSE @ \cup {"sips"}]
    IN  /\ c.pc = "readSips"
        /\ ApiStep(t, IF o = "throw" THEN ApiCatch(c1)
                      ELSE [c1 EXCEPT !.pc = "readInvs"], o)
        /\ UNCHANGED <<now, tz, esec, epf, sips, invs, lay, sec>>

ApiReadInvs(t, o) ==
    LET c == chk[t]
        data == IF o = "ok" THEN Selected(invs) ELSE NullData
        c1 == [c EXCEPT !.investmentData = data, !.seenInvs = invs,
                        !.failed = @ \/ o # "ok",
                        !.readFailed = IF o = "ok" THEN @ ELSE @ \cup {"invs"}]
    IN  /\ c.pc = "readInvs"
        /\ ApiStep(t, IF o = "throw" THEN ApiCatch(c1) ELSE SipLoop(c1, 1), o)
        /\ UNCHANGED <<now, tz, esec, epf, sips, invs, lay, sec>>

ApiInsertInv(t, o) ==
    LET c == chk[t]
        row == newInvestment(c.userId, c.sipData.rows[c.i], c.today)
    IN  /\ c.pc = "insertInv"
        /\ IF o = "ok"
           THEN /\ invs' = InsertInv(invs, row)
                /\ ApiWrite(t, SipLoop([c EXCEPT !.investmentsAdded = TRUE,
                                                 !.invIns = Append(@, invs'[Len(invs')])],
                                       c.i + 1), o)
           ELSE /\ invs' = invs
                /\ ApiStep(t, IF o = "throw"
                              THEN ApiCatch([c EXCEPT !.failedFor = @ \cup {row.sip_investment_id}])
                              ELSE SipLoop([c EXCEPT !.failed = TRUE,
                                                     !.failedFor = @ \cup {row.sip_investment_id}],
                                           c.i + 1), o)
        /\ UNCHANGED <<now, tz, esec, epf, sips, lay, sec>>

(***************************************************************************)
(* InvestmentSection.  Version "auto" is                                   *)
(* src/src/components/dashboard/InvestmentSection.tsx, version "skip" is   *)
(* src/unnamed/part_004; a page runs one of them.  Its tasks (the initial  *)
(* load, the automatic entries, a skip) run one after the other.           *)
(***************************************************************************)
Versions == {"auto", "skip"}

SecOutcomes == {"ok", "error"}

\* A write of the section is an "other write" for every running invocation.
SecWrite(skipped) ==
    /\ chk' = [u \in Tabs |-> IF Running(chk[u]) THEN [chk[u] EXCEPT !.dirty = TRUE]
                              ELSE chk[u]]
    /\ hist' = [hist EXCEPT !.prevDay = 0, !.skipped = @ \/ skipped]

SecFault(o) ==
    /\ MayFail(o)
    /\ hist' = [hist EXCEPT !.faults = IF o = "ok" THEN @ ELSE @ + 1]

\* The route renders the section: useEffect -> loadData().
SecMount(t, v) ==
    /\ lay[t].mounted
    /\ sec[t].pc = "none"
    /\ sec' = [sec EXCEPT ![t] = [NoSection EXCEPT !.pc = "loadSips", !.ver = v]]
    /\ UNCHANGED <<now, tz, esec, epf, sips, invs, lay, chk, hist>>

\* await fetchSipInvestments(), of loadData or as the refresh at the end of
\* updateSipAmount: on an error the state keeps its value.
SecFetchSips(t, o) ==
    /\ sec[t].pc \in {"loadSips", "reloadSips"}
    /\ SecFault(o)
    /\ sec' = [sec EXCEPT ![t].pc = IF sec[t].pc = "loadSips" THEN "loadInvs" ELSE "ready",
                          ![t].sipInvestments = IF o = "ok" THEN sips ELSE @]
    /\ UNCHANGED <<now, tz, esec, epf, sips, invs, lay, chk>>

\* await fetchInvestments(), of loadData or as the refresh after a write.
SecFetchInvs(t, o) ==
    /\ sec[t].pc \in {"loadInvs", "refresh"}
    /\ SecFault(o)
    /\ sec' = [sec EXCEPT ![t].pc = "ready",
                          ![t].investments = IF o = "ok" THEN invs ELSE @,
                          ![t].isInitialMount = IF sec[t].pc = "loadInvs" THEN FALSE ELSE @]
    /\ UNCHANGED <<now, tz, esec, epf, sips, invs, lay, chk>>

\* getActiveSIPs
getActiveSIPs(sipInvestments, today) ==
    SelectSeq(sipInvestments,
              LAMBDA sip : sip.end_date = NoDate \/ isAfter(parseISO(sip.end_date), today))

\* hasCurrentMonthEntries of skipCurrentMonthInvestment
hasCurrentMonthEntries(activeSIPs, investments, today) ==
    \E a \in DOMAIN activeSIPs : \E k \in DOMAIN investments :
        /\ investments[k].sip_investment_id = activeSIPs[a].id
        /\ getMonth(parseISO(investments[k].date)) = getMonth(today)
        /\ getFullYear(parseISO(investments[k].date)) = getFullYear(today)

skippedEntries(activeSIPs, userId, today) ==
    [a \in DOMAIN activeSIPs |->
        [user_id |-> userId,
         sip_investment_id |-> activeSIPs[a].id,
         type |-> "SIP",
         name |-> activeSIPs[a].fund_name,
         amount |-> 0,
         date |-> toISODate(NewDate(getFullYear(today), getMonth(today), SipDay), FALSE),
         notes |-> SkipNote]]

RECURSIVE InsertRows(_, _)
InsertRows(table, rs) ==
    IF rs = <<>> THEN table ELSE InsertRows(InsertInv(table, Head(rs)), Tail(rs))

\* skipCurrentMonthInvestment up to the end of its insert; the refresh
\* that follows a successful insert is SecFetchInvs.
SkipCurrentMonthInvestment(t, o) ==
    LET x == sec[t]
        activeSIPs == getActiveSIPs(x.sipInvestments, now)
        entries == skippedEntries(activeSIPs, UserId, now)
        ids == { activeSIPs[a].id : a \in DOMAIN activeSIPs }
        rec(out, rows) == [outcome |-> out, today |-> now, active |-> ids,
                           before |-> invs, rows |-> rows]
    IN  /\ x.ver = "skip" /\ x.pc = "ready" /\ x.skips < MaxSkips
        /\ IF hasCurrentMonthEntries(activeSIPs, x.investments, now)
           THEN /\ o = "ok"
                /\ sec' = [sec EXCEPT ![t].skips = @ + 1, ![t].skip = rec("already", <<>>)]
                /\ UNCHANGED <<invs, chk, hist>>
           ELSE IF Len(entries) = 0
           THEN /\ o = "ok"
                /\ sec' = [sec EXCEPT ![t].skips = @ + 1, ![t].skip = rec("empty", <<>>)]
                /\ UNCHANGED <<invs, chk, hist>>
           ELSE IF o = "ok"
           THEN /\ invs' = InsertRows(invs, entries)
                /\ sec' = [sec EXCEPT ![t].skips = @ + 1, ![t].pc = "refresh",
                                      ![t].skip = rec("inserted", entries)]
                /\ SecWrite(TRUE)
           ELSE /\ SecFault(o)
                /\ sec' = [sec EXCEPT ![t].skips = @ + 1, ![t].skip = rec("failed", <<>>)]
                /\ UNCHANGED <<invs, chk>>
        /\ UNCHANGED <<now, tz, esec, epf, sips, lay>>

\* The loop of addAutomaticSipEntries from plan `from` to its next insert:
\* the index of that plan, or 0 when the loop ends.
NextAutoInsert(sipInvestments, investments, today, from) ==
    LET S == {k \in from..Len(sipInvestments) :
                 /\ ~sipNotActive(sipInvestments[k], startOfMonth(today))
                 /\ ~hasEntryThisMonth(Selected(investments), sipInvestments[k],
                                       startOfMonth(today))}
    IN  IF S = {} THEN 0 ELSE CHOOSE k \in S : \A j \in S : k <= j

AutoLoop(x, from) ==
    LET k == NextAutoInsert(x.sipInvestments, x.investments, x.today, from) IN
    IF k # 0 THEN [x EXCEPT !.pc = "autoInsert", !.i = k]
    ELSE [x EXCEPT !.pc = IF x.entriesAdded THEN "refresh" ELSE "ready"]

\* const isAfter25th = getDate(today) >= 25
isAfter25th(today) == getDate(today) >= SipDay

\* The effect on [investments, sipInvestments] calls addAutomaticSipEntries,
\* which runs to its first insert.
AddAutomaticSipEntries(t, late) ==
    LET x == sec[t]
        x1 == [x EXCEPT !.hasCheckedAutoEntries = TRUE, !.today = now,
                        !.late = late /\ isAfter25th(now),
                        !.entriesAdded = FALSE, !.autoIns = <<>>]
    IN  /\ x.ver = "auto" /\ x.pc = "ready"
        /\ ~x.isInitialMount
        /\ Len(x.investments) > 0 /\ Len(x.sipInvestments) > 0
        /\ ~x.hasCheckedAutoEntries
        /\ sec' = [sec EXCEPT ![t] = IF ~isAfter25th(now) THEN x1 ELSE AutoLoop(x1, 1)]
        /\ UNCHANGED <<now, tz, esec, epf, sips, invs, lay, chk, hist>>

autoInvestment(userId, sip, today, late) ==
    [user_id |-> userId,
     sip_investment_id |-> sip.id,
     type |-> "SIP",
     name |-> sip.fund_name,
     amount |-> sip.amount,
     date |-> toISODate(today, late),
     notes |-> SipAutoNote]

AutoInsert(t, o) ==
    LET x == sec[t]
        row == autoInvestment(UserId, x.sipInvestments[x.i], x.today, x.late)
    IN  /\ x.pc = "autoInsert"
        /\ IF o = "ok"
           THEN /\ invs' = InsertInv(invs, row)
                /\ sec' = [sec EXCEPT ![t] = AutoLoop([x EXCEPT !.entriesAdded = TRUE,
                                                               !.autoIns = Append(@, invs'[Len(invs')])],
                                                      x.i + 1)]
                /\ SecWrite(FALSE)
           ELSE /\ SecFault(o)
                /\ sec' = [sec EXCEPT ![t] = AutoLoop(x, x.i + 1)]
                /\ UNCHANGED <<invs, chk>>
        /\ UNCHANGED <<now, tz, esec, epf, sips, lay>>

\* addMonths(x, 1): the same day and time of the next month
addMonths1(x) ==
    IF x.m < 12 THEN [x EXCEPT !.m = @ + 1] ELSE [x EXCEPT !.y = @ + 1, !.m = 1]

\* .update({ end_date }).eq("id", sipId)
UpdateSipEndDate(table, sipId, date) ==
    [k \in DOMAIN table |-> IF table[k].id = sipId THEN [table[k] EXCEPT !.end_date = date]
                            ELSE table[k]]

InsertSip(table, r) ==
    Append(table, [id |-> PlanId(Len(table) + 1), user_id |-> r.user_id,
                   fund_name |-> r.fund_name, amount |-> r.amount,
                   start_date |-> r.start_date, end_date |-> r.end_date])

newSip(userId, sip, newAmount, today, late) ==
    [user_id |-> userId,
     fund_name |-> sip.fund_name,
     amount |-> newAmount,
     start_date |-> toISODate(addMonths1(today), late),
     end_date |-> NoDate]

\* updateSipAmount(sipId) for a plan of the displayed list, up to the end of
\* its first call, the update that closes the plan.
UpdateSipAmount(t, k, newAmount, late, o) ==
    LET x == sec[t]
        shown == getActiveSIPs(x.sipInvestments, now)
        call == [outcome |-> "closed", sipId |-> shown[k].id, newAmount |-> newAmount,
                 today |-> now, late |-> late, before |-> sips]
    IN  /\ x.pc = "ready" /\ x.edits < MaxEdits
        /\ k \in DOMAIN shown
        /\ IF newAmount = 0
           THEN o = "ok" /\ UNCHANGED <<sips, sec, chk, hist>>
           ELSE IF o = "ok"
           THEN /\ sips' = UpdateSipEndDate(sips, shown[k].id, toISODate(now, late))
                /\ sec' = [sec EXCEPT ![t].pc = "supersede", ![t].edits = @ + 1,
                                      ![t].usa = call]
                /\ SecWrite(FALSE)
           ELSE /\ SecFault(o)
                /\ sec' = [sec EXCEPT ![t].edits = @ + 1,
                                      ![t].usa = [call EXCEPT !.outcome = "failed"]]
                /\ UNCHANGED <<sips, chk>>
        /\ UNCHANGED <<now, tz, esec, epf, invs, lay>>

\* The second call of updateSipAmount: the insert of the new plan.
UpdateSipAmountInsert(t, o) ==
    LET x == sec[t]
        S == {j \in DOMAIN x.sipInvestments : x.sipInvestments[j].id = x.usa.sipId}
        sip == x.sipInvestments[CHOOSE j \in S : TRUE]
    IN  /\ x.pc = "supersede"
        /\ IF o = "ok"
           THEN /\ sips' = InsertSip(sips, newSip(UserId, sip, x.usa.newAmount,
                                                  x.usa.today, x.usa.late))
                /\ sec' = [sec EXCEPT ![t].pc = "reloadSips", ![t].usa.outcome = "done"]
                /\ SecWrite(FALSE)
           ELSE /\ SecFault(o)
                /\ sec' = [sec EXCEPT ![t].pc = "ready", ![t].usa.outcome = "halfway"]
                /\ UNCHANGED <<sips, chk>>
        /\ UNCHANGED <<now, tz, esec, epf, invs, lay>>

(***************************************************************************)
(* EPFSection (src/src/components/dashboard/EPFSection.tsx).               *)
(***************************************************************************)
\* new Date("yyyy-mm-dd"): a date-only string is taken as UTC midnight,
\* which west of UTC is an instant of the previous local day.
NewDateISO(s) ==
    IF tz < 0 THEN LET c == PrevDay(s) IN [y |-> c.y, m |-> c.m, d |-> c.d, t |-> 1]
    ELSE [y |-> s.y, m |-> s.m, d |-> s.d, t |-> IF tz > 0 THEN 1 ELSE 0]

DateOrd(c) == (c.y * 12 + c.m) * 31 + c.d

\* .order("date", { ascending: true })
RECURSIVE SortByDate(_)
SortByDate(table) ==
    IF table = <<>> THEN <<>>
    ELSE LET k == CHOOSE i \in DOMAIN table :
                     \A j \in DOMAIN table :
                         \/ DateOrd(table[i].date) < DateOrd(table[j].date)
                         \/ DateOrd(table[i].date) = DateOrd(table[j].date) /\ i <= j
             rest == [j \in 1..(Len(table) - 1) |-> IF j < k THEN table[j] ELSE table[j + 1]]
         IN  <<table[k]>> \o SortByDate(rest)

\* The EPF page renders the section: useEffect -> fetchContributions().
EpfMount(t) ==
    /\ lay[t].mounted
    /\ esec[t].pc = "none"
    /\ esec' = [esec EXCEPT ![t] = [NoEpfSection EXCEPT !.pc = "load"]]
    /\ UNCHANGED <<now, tz, epf, sips, invs, lay, chk, sec, hist>>

\* fetchContributions, of the effect or as the refresh after a write: on an
\* error the state keeps its value.
EpfFetchContributions(t, o) ==
    /\ esec[t].pc \in {"load", "refresh"}
    /\ SecFault(o)
    /\ esec' = [esec EXCEPT ![t].pc = "ready",
                            ![t].contributions = IF o = "ok" THEN SortByDate(epf) ELSE @]
    /\ UNCHANGED <<now, tz, epf, sips, invs, lay, chk, sec>>

\* updateMonthlyContribution: setMonthlyAmount(newAmount), nothing is
\* written to the data store.
UpdateMonthlyContribution(t, newAmount) ==
    /\ esec[t].pc = "ready"
    /\ esec[t].edits < MaxEdits
    /\ IF newAmount <= 0
       THEN UNCHANGED <<esec, hist>>
       ELSE /\ esec' = [esec EXCEPT ![t].monthlyAmount = newAmount, ![t].edits = @ + 1]
            /\ hist' = [hist EXCEPT !.configured = newAmount]
    /\ UNCHANGED <<now, tz, epf, sips, invs, lay, chk, sec>>

\* contributions.find(c => getMonth(new Date(c.date)) === month && getYear(..) === year):
\* the index of the first such row, or 0
existingContribution(contributions, year, month) ==
    LET S == {k \in DOMAIN contributions :
                 /\ getMonth(NewDateISO(contributions[k].date)) = month
                 /\ getFullYear(NewDateISO(contributions[k].date)) = year}
    IN  IF S = {} THEN 0 ELSE CHOOSE k \in S : \A j \in S : k <= j

\* .update({ amount: selectedAmount }).eq("id", id)
UpdateEpfAmount(table, id, amount) ==
    [k \in DOMAIN table |-> IF table[k].id = id THEN [table[k] EXCEPT !.amount = amount]
                            ELSE table[k]]

manualContribution(userId, year, month, amount) ==
    [user_id |-> userId,
     amount |-> amount,
     date |-> toISODate(NewDate(year, month, EpfDay), FALSE),
     notes |-> "Manually added contribution"]

\* updatePastMonthContribution up to the end of its write; the refresh that
\* follows a successful write is EpfFetchContributions.
UpdatePastMonthContribution(t, selectedMonth, selectedAmount, o) ==
    LET x == esec[t]
        year == getFullYear(now)        \* selectedYear keeps its initial value
        k == existingContribution(x.contributions, year, selectedMonth)
    IN  /\ x.pc = "ready"
        /\ x.edits < MaxEdits
        /\ IF selectedMonth = 0 \/ selectedAmount <= 0
           THEN o = "ok" /\ UNCHANGED <<epf, esec, chk, hist>>
           ELSE IF o = "ok"
           THEN /\ epf' = IF k # 0
                          THEN UpdateEpfAmount(epf, x.contributions[k].id, selectedAmount)
                          ELSE InsertEpf(epf, manualContribution(UserId, year, selectedMonth,
                                                                 selectedAmount))
                /\ esec' = [esec EXCEPT ![t].pc = "refresh", ![t].edits = @ + 1]
                /\ SecWrite(FALSE)
           ELSE /\ SecFault(o)
                /\ esec' = [esec EXCEPT ![t].edits = @ + 1]
                /\ UNCHANGED <<epf, chk>>
        /\ UNCHANGED <<now, tz, sips, invs, lay, sec>>

(***************************************************************************)
(* Time passes: the next day the model visits.  No page stays open over    *)
(* the change of day: the tabs are closed, their tasks finished.           *)
(***************************************************************************)
TodayDays == {4, 5, 24, 25}

Tick ==
    /\ \A u \in Tabs : /\ chk[u].pc = "idle"
                       /\ sec[u].pc \in {"none", "ready"}
                       /\ esec[u].pc \in {"none", "ready"}
    /\ \E d \in TodayDays :
          /\ d > now.d
          /\ \A e \in TodayDays : e > now.d => d <= e
          /\ now' = [now EXCEPT !.d = d]
    /\ lay' = [u \in Tabs |-> [NoLayout EXCEPT !.mounts = lay[u].mounts]]
    /\ sec' = [u \in Tabs |-> NoSection]
    /\ esec' = [u \in Tabs |-> NoEpfSection]
    /\ UNCHANGED <<tz, epf, sips, invs, chk, hist>>

(***************************************************************************)
(* Initial states: a day of the current month (June of year 2), a time     *)
(* zone, and tables as earlier months and sessions may have left them.     *)
(***************************************************************************)
ThisMonth(d) == CalDate(2, 6, d)
LastMonth(d) == CalDate(2, 5, d)
NextMonth(d) == CalDate(2, 7, d)
LastYear(d) == CalDate(1, 6, d)

EpfRow(k, date, note) ==
    [id |-> k, user_id |-> UserId, amount |-> EpfAmount, date |-> date, notes |-> note]

EpfInits ==
    { <<>>,
      <<EpfRow(1, ThisMonth(4), EpfAutoNote)>>,
      <<EpfRow(1, LastMonth(5), EpfAutoNote)>>,
      <<EpfRow(1, LastYear(5), EpfAutoNote), EpfRow(2, NextMonth(5), "Manually added contribution")>> }

\* start_date and end_date of a plan, relative to the current month
PlanShapes ==
    << <<LastMonth(1), NoDate>>,        \* running
       <<LastMonth(1), LastMonth(20)>>, \* closed before this month
       <<LastMonth(1), ThisMonth(10)>>, \* closed during this month
       <<ThisMonth(1), NoDate>>,        \* started on the 1st of this month
       <<ThisMonth(10), NoDate>>,       \* started during this month
       <<NextMonth(10), NoDate>> >>     \* starts next month

Plan(k, shape) ==
    [id |-> PlanId(k), user_id |-> UserId,
     fund_name |-> <<"Fund A", "Fund B", "Fund C">>[k], amount |-> 100 * k,
     start_date |-> shape[1], end_date |-> shape[2]]

\* The store returns a select without ORDER BY in no particular order, so
\* the shapes are taken in one order only.
SipInits ==
    UNION { { [k \in 1..n |-> Plan(k, PlanShapes[f[k]])] :
                f \in { g \in [1..n -> DOMAIN PlanShapes] :
                           \A j \in 1..n, k \in 1..n : j < k => g[j] <= g[k] } }
            : n \in 0..MaxPlans }

InvCandidates(ps) ==
    UNION { { [sip_investment_id |-> ps[k].id, type |-> "SIP", name |-> ps[k].fund_name,
               amount |-> ps[k].amount, date |-> ThisMonth(24), notes |-> SipAutoNote, user_id |-> UserId],
              [sip_investment_id |-> ps[k].id, type |-> "SIP", name |-> ps[k].fund_name,
               amount |-> 0, date |-> ThisMonth(25), notes |-> SkipNote, user_id |-> UserId],
              [sip_investment_id |-> ps[k].id, type |-> "SIP", name |-> ps[k].fund_name,
               amount |-> ps[k].amount, date |-> LastMonth(25), notes |-> SipAutoNote, user_id |-> UserId],
              [sip_investment_id |-> ps[k].id, type |-> "SIP", name |-> ps[k].fund_name,
               amount |-> ps[k].amount, date |-> LastYear(25), notes |-> SipAutoNote, user_id |-> UserId] }
            : k \in DOMAIN ps }
    \cup { [sip_investment_id |-> NoId, type |-> "MANUAL", name |-> "Gold",
            amount |-> 50, date |-> ThisMonth(10), notes |-> "", user_id |-> UserId] }

\* The initial investments table is empty or holds one row; the operations
\* add the further rows.
InvInits(ps) ==
    { <<>> } \cup { InsertInv(<<>>, r) : r \in InvCandidates(ps) }

Init ==
    /\ now \in { [y |-> 2, m |-> 6, d |-> d, t |-> 1] : d \in TodayDays }
    /\ tz \in {-1, 1}
    /\ \/ /\ epf \in EpfInits
          /\ sips = <<Plan(1, PlanShapes[1])>>
          /\ invs = <<>>
       \/ /\ epf = <<EpfRow(1, ThisMonth(4), EpfAutoNote)>>
          /\ sips \in SipInits
          /\ invs \in InvInits(sips)
    /\ lay = [t \in Tabs |-> NoLayout]
    /\ chk = [t \in Tabs |-> IdleChk]
    /\ sec = [t \in Tabs |-> NoSection]
    /\ esec = [t \in Tabs |-> NoEpfSection]
    /\ hist = NoHist

\* Spec: the sessions of the user do not overlap.  DashboardLayout renders
\* nothing before the session is delivered (if (!user) return null), so in
\* a page the reconciler starts first; here it has also finished when the
\* section is rendered.  A page gets its session once.
Next ==
    \/ \E t \in SeqTabs : Mount(t)
    \/ \E t \in SeqTabs : lay[t].deliveries = 0 /\ LayoutCheckMonthlyEntries(t, UserId)
    \/ \E t \in SeqTabs, o \in Outcomes : ApiReadEPF(t, o)
    \/ \E t \in SeqTabs, o \in Outcomes : ApiInsertEPF(t, o)
    \/ \E t \in SeqTabs, o \in Outcomes : ApiReadSips(t, o)
    \/ \E t \in SeqTabs, o \in Outcomes : ApiReadInvs(t, o)
    \/ \E t \in SeqTabs, o \in Outcomes : ApiInsertInv(t, o)
    \/ \E t \in SeqTabs : LayoutResume(t)
    \/ \E t \in SeqTabs, v \in Versions : lay[t].pc \in {"done", "caught"} /\ SecMount(t, v)
    \/ \E t \in SeqTabs, o \in SecOutcomes : SecFetchSips(t, o)
    \/ \E t \in SeqTabs, o \in SecOutcomes : SecFetchInvs(t, o)
    \/ \E t \in SeqTabs, o \in SecOutcomes : SkipCurrentMonthInvestment(t, o)
    \/ \E t \in SeqTabs, late \in BOOLEAN : AddAutomaticSipEntries(t, late)
    \/ \E t \in SeqTabs, o \in SecOutcomes : AutoInsert(t, o)
    \/ Tick

Spec == Init /\ [][Next]_vars

\* SpecFair: Spec, and the data store answers every call: an invocation
\* that awaits a call is resumed, and the layout's await is resumed when the
\* invocation has ended.
ApiFairness ==
    \A t \in SeqTabs :
        /\ WF_vars(\E o \in Outcomes : ApiReadEPF(t, o))
        /\ WF_vars(\E o \in Outcomes : ApiInsertEPF(t, o))
        /\ WF_vars(\E o \in Outcomes : ApiReadSips(t, o))
        /\ WF_vars(\E o \in Outcomes : ApiReadInvs(t, o))
        /\ WF_vars(\E o \in Outcomes : ApiInsertInv(t, o))
        /\ WF_vars(LayoutResume(t))

SpecFair == Init /\ [][Next]_vars /\ ApiFairness

(***************************************************************************)
(* SpecTabs: two pages of the same user open at the same time.  Their      *)
(* invocations interleave call by call, and a page is handed its session   *)
(* several times (the getSession resolution and every auth state change).  *)
(***************************************************************************)
TabsInit ==
    /\ now \in { [y |-> 2, m |-> 6, d |-> d, t |-> 1] : d \in {EpfDay, SipDay} }
    /\ tz \in {-1, 1}
    /\ epf \in { <<>>, <<EpfRow(1, ThisMonth(4), EpfAutoNote)>> }
    /\ sips = <<Plan(1, PlanShapes[1])>>
    /\ invs = <<>>
    /\ lay = [t \in Tabs |-> NoLayout]
    /\ chk = [t \in Tabs |-> IdleChk]
    /\ sec = [t \in Tabs |-> NoSection]
    /\ esec = [t \in Tabs |-> NoEpfSection]
    /\ hist = NoHist

TabsNext ==
    \/ \E t \in Tabs : Mount(t)
    \/ \E t \in Tabs : LayoutCheckMonthlyEntries(t, UserId)
    \/ \E t \in Tabs, o \in Outcomes : ApiReadEPF(t, o)
    \/ \E t \in Tabs, o \in Outcomes : ApiInsertEPF(t, o)
    \/ \E t \in Tabs, o \in Outcomes : ApiReadSips(t, o)
    \/ \E t \in Tabs, o \in Outcomes : ApiReadInvs(t, o)
    \/ \E t \in Tabs, o \in Outcomes : ApiInsertInv(t, o)
    \/ \E t \in Tabs : LayoutResume(t)

SpecTabs == TabsInit /\ [][TabsNext]_vars

(***************************************************************************)
(* SpecAuth: a page whose session may be missing.  getSession and every    *)
(* auth state change deliver a session or none; api.checkMonthlyEntries    *)
(* is also called as an exported function, with any user id.               *)
(***************************************************************************)
UserIds == {"", UserId}

\* await api.checkMonthlyEntries(userId), by a caller other than the layout
CallCheckMonthlyEntries(t, userId) ==
    /\ chk[t].pc = "idle"
    /\ lay[t].pc # "awaiting"
    /\ chk' = [chk EXCEPT ![t] = ApiCheckMonthlyEntries(userId)]
    /\ hist' = [hist EXCEPT !.prevDay = 0]
    /\ UNCHANGED <<now, tz, esec, epf, sips, invs, lay, sec>>

\* that caller's await resumes
CallResume(t) ==
    /\ lay[t].pc # "awaiting"
    /\ Finished(chk[t])
    /\ chk' = [chk EXCEPT ![t] = IdleChk]
    /\ UNCHANGED <<now, tz, esec, epf, sips, invs, lay, sec, hist>>

AuthInit ==
    /\ now \in { [y |-> 2, m |-> 6, d |-> d, t |-> 1] : d \in {4, EpfDay, SipDay} }
    /\ tz \in {-1, 1}
    /\ epf \in { <<>>, <<EpfRow(1, ThisMonth(4), EpfAutoNote)>> }
    /\ sips = <<Plan(1, PlanShapes[1])>>
    /\ invs = <<>>
    /\ lay = [t \in Tabs |-> NoLayout]
    /\ chk = [t \in Tabs |-> IdleChk]
    /\ sec = [t \in Tabs |-> NoSection]
    /\ esec = [t \in Tabs |-> NoEpfSection]
    /\ hist = NoHist

AuthNext ==
    \/ \E t \in SeqTabs : Mount(t)
    \/ \E t \in SeqTabs : LayoutCheckMonthlyEntries(t, UserId)
    \/ \E t \in SeqTabs : LayoutNoSession(t)
    \/ \E t \in SeqTabs, u \in UserIds : CallCheckMonthlyEntries(t, u)
    \/ \E t \in SeqTabs : CallResume(t)
    \/ \E t \in SeqTabs, o \in Outcomes : ApiReadEPF(t, o)
    \/ \E t \in SeqTabs, o \in Outcomes : ApiInsertEPF(t, o)
    \/ \E t \in SeqTabs, o \in Outcomes : ApiReadSips(t, o)
    \/ \E t \in SeqTabs, o \in Outcomes : ApiReadInvs(t, o)
    \/ \E t \in SeqTabs, o \in Outcomes : ApiInsertInv(t, o)
    \/ \E t \in SeqTabs : LayoutResume(t)

SpecAuth == AuthInit /\ [][AuthNext]_vars

(***************************************************************************)
(* SpecUser: Spec with the user's edits.  After the reconciler a page      *)
(* shows one section, the investments or the EPF one, and the user may     *)
(* skip the month, change a plan's amount, set the monthly EPF amount or   *)
(* edit the contribution of a month.                                       *)
(***************************************************************************)
NewAmounts == {0, 150}           \* the amount typed for a plan; 0: nothing typed

EpfAmounts == {0, 5000}          \* the amount typed in an EPF dialog

SelectedMonths == {0, 5, 6}      \* the month picked in the dialog; 0: none

UserInit ==
    /\ now \in { [y |-> 2, m |-> 6, d |-> d, t |-> 1] : d \in {1, 5, 24} }
    /\ tz \in {-1, 1}
    /\ epf \in { <<>>, <<EpfRow(1, ThisMonth(4), EpfAutoNote)>> }
    /\ sips \in { <<Plan(1, PlanShapes[1])>>,
                  <<Plan(1, PlanShapes[1]), Plan(2, PlanShapes[4])>> }
    /\ invs = <<>>
    /\ lay = [t \in Tabs |-> NoLayout]
    /\ chk = [t \in Tabs |-> IdleChk]
    /\ sec = [t \in Tabs |-> NoSection]
    /\ esec = [t \in Tabs |-> NoEpfSection]
    /\ hist = NoHist

UserNext ==
    \/ \E t \in SeqTabs : Mount(t)
    \/ \E t \in SeqTabs : lay[t].deliveries = 0 /\ LayoutCheckMonthlyEntries(t, UserId)
    \/ \E t \in SeqTabs, o \in Outcomes : ApiReadEPF(t, o)
    \/ \E t \in SeqTabs, o \in Outcomes : ApiInsertEPF(t, o)
    \/ \E t \in SeqTabs, o \in Outcomes : ApiReadSips(t, o)
    \/ \E t \in SeqTabs, o \in Outcomes : ApiReadInvs(t, o)
    \/ \E t \in SeqTabs, o \in Outcomes : ApiInsertInv(t, o)
    \/ \E t \in SeqTabs : LayoutResume(t)
    \/ \E t \in SeqTabs, v \in Versions :
          lay[t].pc \in {"done", "caught"} /\ esec[t].pc = "none" /\ SecMount(t, v)
    \/ \E t \in SeqTabs, o \in SecOutcomes : SecFetchSips(t, o)
    \/ \E t \in SeqTabs, o \in SecOutcomes : SecFetchInvs(t, o)
    \/ \E t \in SeqTabs, o \in SecOutcomes : SkipCurrentMonthInvestment(t, o)
    \/ \E t \in SeqTabs, late \in BOOLEAN : AddAutomaticSipEntries(t, late)
    \/ \E t \in SeqTabs, o \in SecOutcomes : AutoInsert(t, o)
    \/ \E t \in SeqTabs, k \in 1..3, a \in NewAmounts, late \in BOOLEAN, o \in SecOutcomes :
          UpdateSipAmount(t, k, a, late, o)
    \/ \E t \in SeqTabs, o \in SecOutcomes : UpdateSipAmountInsert(t, o)
    \/ \E t \in SeqTabs :
          lay[t].pc \in {"done", "caught"} /\ sec[t].pc = "none" /\ EpfMount(t)
    \/ \E t \in SeqTabs, o \in SecOutcomes : EpfFetchContributions(t, o)
    \/ \E t \in SeqTabs, a \in EpfAmounts : UpdateMonthlyContribution(t, a)
    \/ \E t \in SeqTabs, mo \in SelectedMonths, a \in EpfAmounts, o \in SecOutcomes :
          UpdatePastMonthContribution(t, mo, a, o)
    \/ Tick

SpecUser == UserInit /\ [][UserNext]_vars

(***************************************************************************)
(* SpecPage: one loaded page as the browser runs it.  DashboardLayout      *)
(* renders its outlet as soon as the store holds the user, so the section  *)
(* of the route loads while the reconciler the layout started is still     *)
(* awaiting its calls: the steps of the two interleave.                    *)
(***************************************************************************)
PageInit ==
    /\ now \in { [y |-> 2, m |-> 6, d |-> d, t |-> 1] : d \in {EpfDay, SipDay} }
    /\ tz \in {-1, 1}
    /\ epf \in { <<>>, <<EpfRow(1, LastMonth(5), EpfAutoNote)>> }
    /\ sips = <<Plan(1, PlanShapes[1])>>
    /\ invs \in { <<>>,
                  InsertInv(<<>>, [sip_investment_id |-> PlanId(1), type |-> "SIP",
                                   name |-> "Fund A", amount |-> 100, date |-> LastMonth(25),
                                   notes |-> SipAutoNote, user_id |-> UserId]) }
    /\ lay = [t \in Tabs |-> NoLayout]
    /\ chk = [t \in Tabs |-> IdleChk]
    /\ sec = [t \in Tabs |-> NoSection]
    /\ esec = [t \in Tabs |-> NoEpfSection]
    /\ hist = NoHist

\* if (!user) return null: the outlet is rendered once the user is stored
Rendered(l) == l.mounted /\ l.user # NoUser

PageNext ==
    \/ \E t \in SeqTabs : Mount(t)
    \/ \E t \in SeqTabs : LayoutCheckMonthlyEntries(t, UserId)
    \/ \E t \in SeqTabs, o \in Outcomes : ApiReadEPF(t, o)
    \/ \E t \in SeqTabs, o \in Outcomes : ApiInsertEPF(t, o)
    \/ \E t \in SeqTabs, o \in Outcomes : ApiReadSips(t, o)
    \/ \E t \in SeqTabs, o \in Outcomes : ApiReadInvs(t, o)
    \/ \E t \in SeqTabs, o \in Outcomes : ApiInsertInv(t, o)
    \/ \E t \in SeqTabs : LayoutResume(t)
    \/ \E t \in SeqTabs : Rendered(lay[t]) /\ esec[t].pc = "none" /\ SecMount(t, "auto")
    \/ \E t \in SeqTabs, o \in SecOutcomes : SecFetchSips(t, o)
    \/ \E t \in SeqTabs, o \in SecOutcomes : SecFetchInvs(t, o)
    \/ \E t \in SeqTabs, late \in BOOLEAN : AddAutomaticSipEntries(t, late)
    \/ \E t \in SeqTabs, o \in SecOutcomes : AutoInsert(t, o)
    \/ \E t \in SeqTabs : Rendered(lay[t]) /\ sec[t].pc = "none" /\ EpfMount(t)
    \/ \E t \in SeqTabs, o \in SecOutcomes : EpfFetchContributions(t, o)
    \/ \E t \in SeqTabs, mo \in SelectedMonths, a \in EpfAmounts, o \in SecOutcomes :
          UpdatePastMonthContribution(t, mo, a, o)

SpecPage == PageInit /\ [][PageNext]_vars

(***************************************************************************)
(* The properties.  They speak of calendar dates directly, not through     *)
(* the date functions of the code.                                         *)
(***************************************************************************)
\* calendar date c lies in the calendar month of the local instant x
InMonthOf(c, x) == c.y = x.y /\ c.m = x.m

RowsInMonth(table, x) == {k \in DOMAIN table : InMonthOf(table[k].date, x)}

AfterEpfStage(c) == c.pc \in {"readSips", "readInvs", "insertInv", "returned"}

\* the days a and b lie on the same side of both trigger days
SameSide(a, b) ==
    /\ (a < EpfDay) <=> (b < EpfDay)
    /\ (a < SipDay) <=> (b < SipDay)

\* C1: two invocations in a row in the same month, no trigger day reached
\* between them (the same day included), the first returned without a
\* failure, nothing else written since it started, and the second ran
\* without a failure: the second inserts no EPF contribution and no SIP
\* investment.
C1_SecondRunInsertsNothing ==
    \A t \in Tabs :
        (/\ chk[t].prevDay # 0 /\ SameSide(chk[t].prevDay, chk[t].today.d)
         /\ ~chk[t].failed /\ ~chk[t].dirty)
            => chk[t].epfIns = <<>> /\ chk[t].invIns = <<>>

\* C1 witness: the second invocation has returned, and the first one had
\* inserted the EPF contribution and a SIP investment.
C1_Witness ==
    \E t \in Tabs :
        /\ chk[t].pc = "returned" /\ chk[t].prevDay # 0 /\ ~chk[t].failed
        /\ SameSide(chk[t].prevDay, chk[t].today.d)
        /\ chk[t].prevIns >= 2
        /\ chk[t].today.d >= 25

\* C1 (as claimed): any two invocations in a row in the same month, the
\* first returned without a failure, nothing else written since it started,
\* the second without a failure: the second inserts nothing.
C1_AnySecondRunInsertsNothing ==
    \A t \in Tabs :
        (chk[t].prevDay # 0 /\ ~chk[t].failed /\ ~chk[t].dirty)
            => chk[t].epfIns = <<>> /\ chk[t].invIns = <<>>

\* C2: an invocation whose day-of-month is below 5 inserts no EPF
\* contribution, whatever the table holds and whatever fails.
C2_NoEpfBeforeThe5th ==
    \A t \in Tabs : chk[t].today.d < 5 => chk[t].epfIns = <<>>

\* C2 witness: an invocation on the 4th has returned and the month has no
\* EPF contribution.
C2_Witness ==
    \E t \in Tabs :
        /\ chk[t].pc = "returned" /\ chk[t].today.d = 4
        /\ RowsInMonth(epf, chk[t].today) = {}

\* C3 (as claimed): on day >= 5, when the table held a contribution dated in
\* the current month as the invocation read it, it inserts no EPF row.
C3_NoSecondEpfRow ==
    \A t \in Tabs :
        (/\ AfterEpfStage(chk[t])
         /\ chk[t].today.d >= 5
         /\ RowsInMonth(chk[t].seenEpf, chk[t].today) # {})
            => chk[t].epfIns = <<>>

\* C4: on day >= 5, with every call so far succeeding and no contribution
\* dated in the current month, the invocation inserts exactly one EPF row,
\* with the caller's user id and the automatic note, and then the month
\* holds exactly one EPF row.
C4_InsertsOneEpfRow ==
    \A t \in Tabs :
        (/\ AfterEpfStage(chk[t])
         /\ ~chk[t].failed /\ ~chk[t].dirty
         /\ chk[t].today.d >= 5
         /\ RowsInMonth(chk[t].seenEpf, chk[t].today) = {})
            => /\ Len(chk[t].epfIns) = 1
               /\ chk[t].epfIns[1].user_id = chk[t].userId
               /\ chk[t].epfIns[1].notes = "Automatically added monthly EPF contribution"
               /\ Len(epf) = Len(chk[t].seenEpf) + 1
               /\ epf[Len(epf)] = chk[t].epfIns[1]
               /\ Cardinality(RowsInMonth(epf, chk[t].today)) = 1

\* C4 witness: such an invocation has returned with its one row.
C4_Witness ==
    \E t \in Tabs :
        /\ chk[t].pc = "returned" /\ ~chk[t].failed
        /\ Len(chk[t].epfIns) = 1
        /\ RowsInMonth(chk[t].seenEpf, chk[t].today) = {}

\* month of calendar date a is not after the month of b
MonthLE(a, b) == a.y < b.y \/ (a.y = b.y /\ a.m <= b.m)

\* A plan is active for the month of x: start_date <= month and end_date
\* null or >= month.
ActiveInMonth(p, x) ==
    /\ MonthLE(p.start_date, x)
    /\ p.end_date = NoDate \/ MonthLE(x, p.end_date)

\* the rows of a table that carry plan id and lie in the month of x
PlanRowsInMonth(table, id, x) ==
    {k \in DOMAIN table : table[k].sip_investment_id = id /\ InMonthOf(table[k].date, x)}

InsertedFor(c, id) == {k \in DOMAIN c.invIns : c.invIns[k].sip_investment_id = id}

\* C5 (as claimed): an invocation on day >= 25 without a failure inserts,
\* for every plan active in the current month, exactly one investment when
\* the plan had no investment dated in the month and none when it had one.
C5_OneRowPerActivePlan ==
    \A t \in Tabs :
        (chk[t].pc = "returned" /\ ~chk[t].failed /\ ~chk[t].dirty /\ chk[t].today.d >= 25)
            => \A k \in DOMAIN chk[t].seenSips :
                  LET p == chk[t].seenSips[k] IN
                  ActiveInMonth(p, chk[t].today)
                      => Cardinality(InsertedFor(chk[t], p.id))
                           = IF PlanRowsInMonth(chk[t].seenInvs, p.id, chk[t].today) = {}
                             THEN 1 ELSE 0

\* C6: on a day-of-month below 25 neither api.checkMonthlyEntries nor
\* addAutomaticSipEntries inserts an investment, whatever the plans and the
\* investments are and whatever fails.
C6_NoSipBeforeThe25th ==
    \A t \in Tabs :
        /\ chk[t].today.d < 25 => chk[t].invIns = <<>>
        /\ sec[t].today.d < 25 => sec[t].autoIns = <<>> /\ sec[t].pc # "autoInsert"

\* C6 witness: on the 24th the reconciler has returned and
\* addAutomaticSipEntries has run, and a running plan still has no
\* investment dated in the month.
C6_Witness ==
    \E t \in Tabs :
        /\ lay[t].pc = "done"
        /\ sec[t].hasCheckedAutoEntries /\ sec[t].today.d = 24
        /\ \E k \in DOMAIN sec[t].sipInvestments :
              /\ sec[t].sipInvestments[k].start_date = LastMonth(1)
              /\ sec[t].sipInvestments[k].end_date = NoDate
              /\ PlanRowsInMonth(invs, sec[t].sipInvestments[k].id, now) = {}

\* C7 (as claimed): after a skip wrote its rows in the month, an invocation
\* on day >= 25 of that month inserts no SIP investment (no call failing).
C7_NoSipAfterSkip ==
    \A t \in Tabs :
        (chk[t].afterSkip /\ chk[t].today.d >= 25 /\ hist.faults = 0)
            => chk[t].invIns = <<>>

\* start_date not after today, end_date null or after today
ActiveToday(p, x) ==
    /\ \/ MonthLE(p.start_date, x) /\ ~InMonthOf(p.start_date, x)
       \/ InMonthOf(p.start_date, x) /\ p.start_date.d <= x.d
    /\ \/ p.end_date = NoDate
       \/ MonthLE(x, p.end_date) /\ ~InMonthOf(p.end_date, x)
       \/ InMonthOf(p.end_date, x) /\ p.end_date.d > x.d

\* C8 (as claimed): after a skip that ended without an error, every plan
\* active today has an investment dated in the current month.
C8_SkipCoversActivePlans ==
    \A t \in Tabs :
        (sec[t].skip.outcome \in {"inserted", "already", "empty"} /\ hist.faults = 0)
            => \A k \in DOMAIN sips :
                  ActiveToday(sips[k], now)
                      => PlanRowsInMonth(invs, sips[k].id, now) # {}

\* C9 (as claimed): an invocation whose read of a table failed inserts no
\* row of the kind that read was to check: no EPF contribution after a failed
\* epf_contributions read, no investment after a failed sip_investments or
\* investments read.
C9_ReadFailureAddsNothing ==
    \A t \in Tabs :
        /\ "epf" \in chk[t].readFailed => chk[t].epfIns = <<>>
        /\ chk[t].readFailed \cap {"sips", "invs"} # {} => chk[t].invIns = <<>>

\* C10: api.checkMonthlyEntries never rejects: whatever fails it ends by
\* returning a result object, with both flags false when it caught an
\* error, and DashboardLayout.checkMonthlyEntries has nothing to catch.
C10_NeverRaises ==
    \A t \in Tabs :
        /\ chk[t].pc # "rejected"
        /\ lay[t].pc \in {"none", "awaiting", "done"}
        /\ chk[t].pc = "returned"
              => chk[t].result \in [epfAdded : BOOLEAN, investmentsAdded : BOOLEAN]
        /\ chk[t].caught
              => chk[t].pc = "returned"
                 /\ chk[t].result = [epfAdded |-> FALSE, investmentsAdded |-> FALSE]

\* C10 witness: a call threw after the invocation had inserted the EPF
\* contribution, and the invocation has returned.
C10_Witness ==
    \E t \in Tabs :
        chk[t].pc = "returned" /\ chk[t].caught /\ chk[t].epfAdded

\* C11: a mounted DashboardLayout invokes api.checkMonthlyEntries at most
\* once, however many sessions are delivered to it and whenever they come.
C11_OncePerMount ==
    \A t \in Tabs : lay[t].calls <= 1

\* C11 witness: a page was handed a session again while its invocation
\* was in flight, and made one invocation.
C11_Witness ==
    \E t \in Tabs :
        /\ lay[t].deliveries = MaxDeliveries /\ lay[t].calls = 1
        /\ lay[t].pc = "awaiting" /\ chk[t].pc = "readSips"

\* every row of table a is still in table b, unchanged and at its place
Kept(a, b) == Len(a) <= Len(b) /\ \A k \in DOMAIN a : b[k] = a[k]

\* Two invocations that both read the month as empty have both inserted.
BothInserted ==
    \A t \in Tabs, u \in Tabs :
        (t # u /\ ~chk[t].failed /\ ~chk[u].failed)
        => /\ (/\ AfterEpfStage(chk[t]) /\ AfterEpfStage(chk[u])
               /\ chk[t].today.d >= EpfDay
               /\ RowsInMonth(chk[t].seenEpf, now) = {}
               /\ RowsInMonth(chk[u].seenEpf, now) = {})
              => /\ Len(chk[t].epfIns) = 1 /\ Len(chk[u].epfIns) = 1
                 /\ Cardinality(RowsInMonth(epf, now)) = 2
           /\ (/\ chk[t].pc = "returned" /\ chk[u].pc = "returned"
               /\ chk[t].today.d >= SipDay)
              => \A k \in DOMAIN sips :
                    (/\ ActiveInMonth(sips[k], now)
                     /\ ~InMonthOf(sips[k].start_date, now)   \* running since an earlier month
                     /\ PlanRowsInMonth(chk[t].seenInvs, sips[k].id, now) = {}
                     /\ PlanRowsInMonth(chk[u].seenInvs, sips[k].id, now) = {})
                    => Cardinality(PlanRowsInMonth(invs, sips[k].id, now)) = 2

\* C12: when two sessions of the user both read "no entry this month" before
\* either inserts, both insert and the month holds two EPF rows (two SIP
\* rows for the plan); and no step ever removes or changes a row, so the
\* duplicate stays.
C12_DuplicateRace ==
    []BothInserted /\ [][Kept(epf, epf') /\ Kept(invs, invs')]_vars

\* C12 witness: both sessions have returned, each having inserted an EPF
\* row and a SIP row for the same plan and month.
C12_Witness ==
    /\ \A t \in Tabs : /\ chk[t].pc = "returned" /\ ~chk[t].failed
                        /\ Len(chk[t].epfIns) = 1 /\ Len(chk[t].invIns) = 1
    /\ Cardinality(RowsInMonth(epf, now)) = 2
    /\ Cardinality(PlanRowsInMonth(invs, sips[1].id, now)) = 2

\* a step of api.checkMonthlyEntries or of addAutomaticSipEntries
ReconcilerStep ==
    \E t \in Tabs :
        \/ Running(chk[t]) /\ chk'[t] # chk[t]
        \/ sec[t].pc = "autoInsert"
        \/ ~sec[t].hasCheckedAutoEntries /\ sec'[t].hasCheckedAutoEntries

\* C13: a step of api.checkMonthlyEntries or of addAutomaticSipEntries
\* leaves every existing row of epf_contributions, sip_investments and
\* investments in place and unchanged; it only appends.
C13_ReconcilerOnlyAppends ==
    [][ReconcilerStep => Kept(epf, epf') /\ sips' = sips /\ Kept(invs, invs')]_vars

\* C13 witness: the invocation of a page inserted rows, and then
\* addAutomaticSipEntries of that page, which had loaded a non-empty
\* investments table, inserted one more.
C13_Witness ==
    \E t \in Tabs :
        /\ hist.prevIns > 0
        /\ Len(sec[t].autoIns) > 0 /\ sec[t].pc = "ready"
        /\ Len(invs) >= 2

\* C14 (as claimed): the filter of api.checkMonthlyEntries (and the same
\* filter in addAutomaticSipEntries) treats a plan as active for the current
\* month exactly when start_date <= month and end_date is null or >= month,
\* a start_date or end_date inside the month included.
C14_ActivityRule ==
    \A t \in Tabs :
        /\ \A k \in DOMAIN chk[t].sipData.rows :
              LET p == chk[t].sipData.rows[k] IN
              ~sipNotActive(p, startOfMonth(chk[t].today)) <=> ActiveInMonth(p, chk[t].today)
        /\ sec[t].hasCheckedAutoEntries
              => \A k \in DOMAIN sec[t].sipInvestments :
                    LET p == sec[t].sipInvestments[k] IN
                    ~sipNotActive(p, startOfMonth(sec[t].today)) <=> ActiveInMonth(p, sec[t].today)

\* the calendar month of date c lies after the month of the instant x
MonthAfter(c, x) == c.y > x.y \/ (c.y = x.y /\ c.m > x.m)

\* C15: for a plan whose start_date lies after the current month an
\* invocation inserts no investment, on any day and whatever fails.
C15_NotStartedNotCharged ==
    \A t \in Tabs : \A k \in DOMAIN chk[t].seenSips :
        MonthAfter(chk[t].seenSips[k].start_date, chk[t].today)
            => InsertedFor(chk[t], chk[t].seenSips[k].id) = {}

\* C15 witness: on the 25th an invocation has returned; it inserted for a
\* running plan and read a plan that starts next month, which has no
\* investment.
C15_Witness ==
    \E t \in Tabs :
        /\ chk[t].pc = "returned" /\ chk[t].today.d >= SipDay
        /\ Len(chk[t].invIns) > 0
        /\ \E k \in DOMAIN chk[t].seenSips :
              /\ MonthAfter(chk[t].seenSips[k].start_date, chk[t].today)
              /\ PlanRowsInMonth(invs, chk[t].seenSips[k].id, chk[t].today) = {}

\* C16: every investment an invocation inserts belongs to a plan it read:
\* type SIP, the plan's id, fund name and amount, the caller's user id and
\* the automatic note.
C16_SipRowContent ==
    \A t \in Tabs : \A j \in DOMAIN chk[t].invIns :
        LET r == chk[t].invIns[j] IN
        /\ r.type = "SIP"
        /\ r.user_id = chk[t].userId
        /\ r.notes = "Automatically added monthly SIP investment"
        /\ \E k \in DOMAIN chk[t].seenSips :
              /\ r.sip_investment_id = chk[t].seenSips[k].id
              /\ r.name = chk[t].seenSips[k].fund_name
              /\ r.amount = chk[t].seenSips[k].amount

\* C16 witness: an invocation has inserted for the second of two plans, whose
\* amount and fund differ from the first's.
C16_Witness ==
    \E t \in Tabs :
        /\ chk[t].pc = "returned" /\ Len(chk[t].seenSips) = 2
        /\ \E j \in DOMAIN chk[t].invIns :
              /\ chk[t].invIns[j].sip_investment_id = chk[t].seenSips[2].id
              /\ chk[t].invIns[j].amount = 200

\* C17 (as claimed): in every time zone an automatic EPF contribution is
\* dated the 5th and an automatic SIP investment the 25th of the current
\* local month.
C17_AutoRowDates ==
    \A t \in Tabs :
        /\ \A j \in DOMAIN chk[t].epfIns :
              chk[t].epfIns[j].date = CalDate(chk[t].today.y, chk[t].today.m, 5)
        /\ \A j \in DOMAIN chk[t].invIns :
              chk[t].invIns[j].date = CalDate(chk[t].today.y, chk[t].today.m, 25)

\* C18 (as claimed): an EPF contribution the reconciler inserts carries the
\* monthly amount the user last configured, and 3600 only when none was
\* configured (no call failing).
C18_EpfAmountConfigured ==
    \A t \in Tabs : \A j \in DOMAIN chk[t].epfIns :
        hist.faults = 0 =>
        chk[t].epfIns[j].amount = IF hist.configured # 0 THEN hist.configured ELSE 3600

\* the local calendar date of an instant
LocalDate(x) == CalDate(x.y, x.m, x.d)

\* calendar date c lies in the calendar month after the month of x
InNextMonthOf(c, x) ==
    IF x.m < 12 THEN c.y = x.y /\ c.m = x.m + 1 ELSE c.y = x.y + 1 /\ c.m = 1

\* updateSipAmount left amount, fund name and start_date of the rows that
\* existed before the call as they were.
SupersedeFrame(u) ==
    /\ Len(u.before) <= Len(sips)
    /\ \A k \in DOMAIN u.before :
          /\ sips[k].id = u.before[k].id
          /\ sips[k].amount = u.before[k].amount
          /\ sips[k].fund_name = u.before[k].fund_name
          /\ sips[k].start_date = u.before[k].start_date
          /\ sips[k].id # u.sipId => sips[k].end_date = u.before[k].end_date

\* C19 (as claimed): updateSipAmount never changes amount, fund name or
\* start_date of an existing plan; when it succeeds it has set the old
\* plan's end_date to today and inserted one new plan with the same fund
\* name, the new amount, end_date null and a start_date in the next
\* calendar month.
C19_SupersessionAppendOnly ==
    \A t \in Tabs :
        LET u == sec[t].usa IN
        /\ u.outcome # "none" => SupersedeFrame(u)
        /\ (u.outcome = "done" /\ sec[t].pc = "reloadSips")
              => /\ Len(sips) = Len(u.before) + 1
                 /\ \A k \in DOMAIN u.before :
                       u.before[k].id = u.sipId
                           => /\ sips[k].end_date = LocalDate(u.today)
                              /\ sips[Len(sips)].fund_name = u.before[k].fund_name
                 /\ sips[Len(sips)].amount = u.newAmount
                 /\ sips[Len(sips)].end_date = NoDate
                 /\ InNextMonthOf(sips[Len(sips)].start_date, u.today)

\* No step removes an entry of the current month or moves it out of the
\* month: EPF contributions keep their date, investments their date and plan.
RowsStay ==
    /\ \A k \in DOMAIN epf :
          InMonthOf(epf[k].date, now)
              => k \in DOMAIN epf' /\ epf'[k].id = epf[k].id /\ epf'[k].date = epf[k].date
    /\ \A k \in DOMAIN invs :
          InMonthOf(invs[k].date, now)
              => /\ k \in DOMAIN invs' /\ invs'[k].id = invs[k].id
                 /\ invs'[k].date = invs[k].date
                 /\ invs'[k].sip_investment_id = invs[k].sip_investment_id

\* An invocation inserts nothing for an obligation that was satisfied when
\* it read the tables.
StaysSatisfied ==
    \A t \in Tabs :
        /\ RowsInMonth(chk[t].seenEpf, chk[t].today) # {} => chk[t].epfIns = <<>>
        /\ \A k \in DOMAIN chk[t].seenSips :
              PlanRowsInMonth(chk[t].seenInvs, chk[t].seenSips[k].id, chk[t].today) # {}
                  => InsertedFor(chk[t], chk[t].seenSips[k].id) = {}

\* C20 (as claimed): once an EPF contribution, or an investment or skip
\* marker of a plan, dated in the current month exists, no operation removes
\* it or moves it out of the month, and every later reconciler run of the
\* month inserts nothing for it.
C20_NoWayBack ==
    []StaysSatisfied /\ [][RowsStay]_vars

\* The reconciliation a session started ends.
Terminates ==
    \A t \in Tabs : Running(chk[t]) ~> Finished(chk[t])

\* After an invocation on or after the 5th that met no failure the month
\* has an EPF contribution.
DueEpfSatisfied ==
    \A t \in Tabs :
        (chk[t].pc = "returned" /\ ~chk[t].failed /\ chk[t].today.d >= EpfDay)
            => RowsInMonth(epf, chk[t].today) # {}

\* After an invocation on or after the 25th that met no failure every plan
\* active in the month has an investment dated in the month.
DueSipSatisfied ==
    \A t \in Tabs :
        (chk[t].pc = "returned" /\ ~chk[t].failed /\ chk[t].today.d >= SipDay)
            => \A k \in DOMAIN chk[t].seenSips :
                  ActiveInMonth(chk[t].seenSips[k], chk[t].today)
                      => PlanRowsInMonth(invs, chk[t].seenSips[k].id, chk[t].today) # {}

\* C21 (as claimed): the reconciliation started by a session loaded on or
\* after the trigger day eventually terminates, and when no read or write
\* failed the month afterwards has an entry for every obligation that was
\* due: the EPF contribution from the 5th, an investment for each active
\* plan from the 25th.
C21_DueLeadsToSatisfied ==
    Terminates /\ []DueEpfSatisfied /\ []DueSipSatisfied

\* A step in which the page is handed a session, or none.
Delivered(t) == lay'[t].deliveries = lay[t].deliveries + 1

\* A step in which the layout starts an invocation.
LayoutCalls(t) == lay'[t].calls = lay[t].calls + 1

\* The layout calls the function only when the page was handed a session,
\* and with that session's user id; a delivery without a session sets the
\* stored user to null and the route to /login and starts no invocation.
SessionRule ==
    \A t \in Tabs :
        /\ LayoutCalls(t)
              => /\ Delivered(t) /\ lay'[t].session # NoSession
                 /\ chk'[t].userId = lay'[t].session /\ chk'[t].userId # ""
                 /\ lay'[t].user = lay'[t].session
        /\ (Delivered(t) /\ lay'[t].session = NoSession)
              => /\ lay'[t].user = NoUser /\ lay'[t].path = "/login"
                 /\ ~LayoutCalls(t) /\ chk' = chk
                 /\ epf' = epf /\ sips' = sips /\ invs' = invs

\* A call with an empty user id has returned both flags false on the spot:
\* it read nothing and inserted nothing.
EmptyIdCall(c) == c.pc # "idle" /\ c.userId = ""

EmptyIdRule ==
    \A t \in Tabs :
        EmptyIdCall(chk[t])
            => /\ chk[t].pc = "returned" /\ chk[t].result = NoResult
               /\ chk[t].seenEpf = <<>> /\ chk[t].seenSips = <<>> /\ chk[t].seenInvs = <<>>
               /\ chk[t].epfData = NullData /\ chk[t].sipData = NullData
               /\ chk[t].investmentData = NullData /\ chk[t].readFailed = {}
               /\ chk[t].epfIns = <<>> /\ chk[t].invIns = <<>>

\* C22: the layout invokes api.checkMonthlyEntries only with the user id of
\* a session it was handed; a delivery without a session sets the stored
\* user to null, navigates to /login and starts no reconciliation; a call
\* with an empty user id reads nothing, inserts nothing and returns both
\* flags false.
C22_RequiresSession ==
    []EmptyIdRule
    /\ [][SessionRule /\ \A t \in Tabs : EmptyIdCall(chk'[t]) /\ ~EmptyIdCall(chk[t])
                                              => epf' = epf /\ sips' = sips /\ invs' = invs]_vars

\* C22 witness: on the 25th, with nothing in the month yet, a page that had
\* started a reconciliation with its session was then handed no session, is
\* on /login with no stored user, and a call with an empty user id has
\* returned.
C22_Witness ==
    \E t \in Tabs :
        /\ now.d = SipDay /\ lay[t].calls = 1 /\ lay[t].deliveries = 2
        /\ lay[t].session = NoSession /\ lay[t].path = "/login" /\ lay[t].user = NoUser
        /\ EmptyIdCall(chk[t]) /\ chk[t].pc = "returned"

\* The obligations ("epf", or a plan's id) whose insert by the reconciler
\* has failed on the page of tab t.
FailedFor(t) == chk[t].failedFor \cup lay[t].failedFor

\* Steps in which an insert is attempted: by the reconciler for the EPF
\* contribution or for plan id, by addAutomaticSipEntries for plan id.
EpfAttempt(t) == chk[t].pc = "insertEPF" /\ chk'[t].pc # "insertEPF"

InvAttempt(t, id) ==
    /\ chk[t].pc = "insertInv" /\ chk[t].sipData.rows[chk[t].i].id = id
    /\ chk'[t].pc # "insertInv" \/ chk'[t].i # chk[t].i

AutoAttempt(t, id) ==
    /\ sec[t].pc = "autoInsert" /\ sec[t].sipInvestments[sec[t].i].id = id
    /\ sec'[t].pc # "autoInsert" \/ sec'[t].i # sec[t].i

PlanIds == {PlanId(k) : k \in 1..6}

\* A failed insert of the reconciler does not set its flag and does not
\* leave the function as an exception.
SilentFailure ==
    \A t \in Tabs :
        /\ (EpfAttempt(t) /\ epf' = epf)
              => ~chk'[t].epfAdded /\ ~chk'[t].result.epfAdded /\ chk'[t].pc # "rejected"
        /\ \A id \in PlanIds :
              (InvAttempt(t, id) /\ invs' = invs)
                  => /\ chk'[t].investmentsAdded = chk[t].investmentsAdded
                     /\ chk'[t].pc # "rejected"

\* The reconciler attempts no insert for an obligation whose insert has
\* failed on this page.
NoApiRetry ==
    \A t \in Tabs :
        /\ EpfAttempt(t) => "epf" \notin FailedFor(t)
        /\ \A id \in PlanIds : InvAttempt(t, id) => id \notin FailedFor(t)

\* Nor does addAutomaticSipEntries.
NoAutoRetry ==
    \A t \in Tabs : \A id \in PlanIds : AutoAttempt(t, id) => id \notin FailedFor(t)

C24_FlagsFaithful ==
    \A t \in Tabs :
        chk[t].pc = "returned"
            => /\ chk[t].result.epfAdded <=> chk[t].epfIns # <<>>
               /\ chk[t].result.investmentsAdded <=> chk[t].invIns # <<>>

\* C25 (as claimed): in the first loaded session of the month, on day >= 25
\* and with no call failing, api.checkMonthlyEntries and
\* addAutomaticSipEntries together leave at most one investment per plan
\* dated in the month, however their reads and inserts interleave.
C25_OneAutoRowPerPlan ==
    \A t \in SeqTabs :
        (lay[t].mounts = 1 /\ hist.faults = 0 /\ now.d >= SipDay)
            => \A k \in DOMAIN sips :
                  Cardinality(PlanRowsInMonth(invs, sips[k].id, now)) <= 1

\* the plans of table that the reconciler's filter treats as active in the
\* month j months after the month of x, for a fund
MonthStartAfter(x, j) ==
    IF j = 0 THEN startOfMonth(x)
    ELSE IF j = 1 THEN startOfMonth(addMonths1(x))
    ELSE startOfMonth(addMonths1(addMonths1(x)))

ActivePlansOf(table, fund, monthStart) ==
    {k \in DOMAIN table : table[k].fund_name = fund /\ ~sipNotActive(table[k], monthStart)}

FundOf(table, id) == table[CHOOSE k \in DOMAIN table : table[k].id = id].fund_name

\* C26 (as claimed): after updateSipAmount has superseded a plan on a day of
\* month M, the reconciler's filter treats exactly one plan of that fund as
\* active in M and in each later month (checked for M, M+1 and M+2).
C26_NoGapNoOverlap ==
    \A t \in Tabs :
        sec[t].usa.outcome = "done"
            => \A j \in 0..2 :
                  Cardinality(ActivePlansOf(sips, FundOf(sips, sec[t].usa.sipId),
                                            MonthStartAfter(sec[t].usa.today, j))) = 1

\* the row of plan id in a table
PlanOf(table, id) == table[CHOOSE k \in DOMAIN table : table[k].id = id]

\* C27 (as claimed): when updateSipAmount has ended without creating the
\* new plan, the old plan's end_date is what it was before the call: it is
\* never closed without a successor.
C27_AllOrNothing ==
    \A t \in Tabs :
        sec[t].usa.outcome \in {"failed", "halfway"}
            => /\ Len(sips) = Len(sec[t].usa.before)
               /\ PlanOf(sips, sec[t].usa.sipId).end_date
                     = PlanOf(sec[t].usa.before, sec[t].usa.sipId).end_date

\* A step of updatePastMonthContribution that inserted a row; the row is
\* dated in the month the user selected.
ManualInsert(t) == esec'[t].edits = esec[t].edits + 1 /\ Len(epf') = Len(epf) + 1

\* C28 (as claimed): with no call failing, updatePastMonthContribution
\* inserts a row only when the table held no contribution dated in the
\* selected month; when one exists, the reconciler's included and whatever
\* the order of the section's fetch and the reconciler's insert, it adds no
\* row.
C28_ManualEditNoDuplicate ==
    [][\A t \in Tabs :
          (ManualInsert(t) /\ hist.faults = 0)
              => RowsInMonth(epf, epf'[Len(epf')].date) = {}]_vars

\* the ids of the plans of a list that api.checkMonthlyEntries treats as
\* active in the month of x
ReconcilerActive(plans, x) ==
    {plans[k].id : k \in {j \in DOMAIN plans : ~sipNotActive(plans[j], startOfMonth(x))}}

\* C29 (as claimed): a skip that inserted rows inserted one for exactly the
\* plans the reconciler treats as active in the current month, and none
\* for a plan whose start_date lies after the current month.
C29_SkipAgreesWithReconciler ==
    \A t \in Tabs :
        sec[t].skip.outcome = "inserted"
            => /\ {sec[t].skip.rows[j].sip_investment_id : j \in DOMAIN sec[t].skip.rows}
                     = ReconcilerActive(sec[t].sipInvestments, sec[t].skip.today)
               /\ \A j \in DOMAIN sec[t].skip.rows :
                     ~MonthAfter(PlanOf(sec[t].sipInvestments,
                                        sec[t].skip.rows[j].sip_investment_id).start_date,
                                 sec[t].skip.today)

\* C30: an invocation on day >= 25 whose reads succeeded and in which no
\* call threw has evaluated the SIP rule whether or not its EPF insert
\* failed, and has inserted one investment for every plan that was active
\* and had no entry in the month, except the plans whose own insert failed.
C30_RulesIndependent ==
    \A t \in Tabs :
        LET c == chk[t] IN
        (c.pc = "returned" /\ ~c.caught /\ c.readFailed = {} /\ c.today.d >= SipDay)
            => /\ c.sipData.ok /\ c.investmentData.ok
               /\ \A k \in DOMAIN c.sipData.rows :
                     LET p == c.sipData.rows[k] IN
                     (/\ ~sipNotActive(p, startOfMonth(c.today))
                      /\ ~hasEntryThisMonth(c.investmentData, p, startOfMonth(c.today)))
                         => \/ p.id \in c.failedFor /\ InsertedFor(c, p.id) = {}
                            \/ p.id \notin c.failedFor /\ Cardinality(InsertedFor(c, p.id)) = 1

\* C30 witness: on the 25th the EPF insert returned an error, and the same
\* invocation went on to insert the investment of a plan and returned.
C30_Witness ==
    \E t \in Tabs :
        /\ chk[t].pc = "returned" /\ ~chk[t].caught /\ chk[t].today.d >= SipDay
        /\ "epf" \in chk[t].failedFor /\ chk[t].epfIns = <<>>
        /\ Len(chk[t].invIns) = 1

====
